---------------------------- MODULE Spec2Model ----------------------------
(***************************************************************************)
(* Avatar lifecycle of the profile backend: the User model's URL           *)
(* resolution and before-destroy cleanup (model/User.js), the profile      *)
(* controller's avatar handlers behind the multer upload filter            *)
(* (controller/ProfileController.js, router/ProfileRoutes.js), the model   *)
(* registry (model/index.js) and the avatar service                        *)
(* (services/AvatarService.js).                                            *)
(*                                                                         *)
(* A JavaScript string is a sequence of atoms, each atom a TLA+ string:    *)
(* single characters where the code looks inside the string, whole         *)
(* literals where it only concatenates.                                    *)
(***************************************************************************)
EXTENDS Integers, Sequences, FiniteSets, TLC

VARIABLES users, accounts, files, store, clock, uploads, generated, env, last

vars == <<users, accounts, files, store, clock, uploads, generated, env, last>>

-----------------------------------------------------------------------------
(* Bounds of the exploration.                                              *)

\* longest avatar_url / name drawn for the URL-resolution specification
MaxLen == 4
\* longest name drawn for the URL-resolution specification
MaxNameLen == 2
\* most File rows one user owns
MaxFiles == 3
\* most runs of AvatarService.uploadAvatar in one behaviour
MaxUploads == 2

-----------------------------------------------------------------------------
(* JavaScript values and string operations.                                *)

\* null / undefined of a nullable string column or variable
NULL == <<"<null>">>

\* if (x), x && ..., x || ...: null, undefined and '' are falsy
Truthy(s) == s # NULL /\ s # <<>>

\* the strings of atoms of A of length 0..n
StringsUpTo(A, n) == UNION {[1..k -> A] : k \in 0..n}

\* s has pat at index i (1-based)
MatchAt(s, pat, i) ==
    /\ i + Len(pat) - 1 <= Len(s)
    /\ \A j \in 1..Len(pat) : s[i + j - 1] = pat[j]

\* String.prototype.includes
includes(s, pat) == \E i \in 1..(Len(s) + 1) : MatchAt(s, pat, i)

\* String.prototype.replace with a string pattern: the first occurrence only
replace(s, pat, rep) ==
    IF ~includes(s, pat) THEN s
    ELSE LET i == CHOOSE k \in 1..(Len(s) + 1) :
                     /\ MatchAt(s, pat, k)
                     /\ \A m \in 1..(k - 1) : ~MatchAt(s, pat, m)
         IN  SubSeq(s, 1, i - 1) \o rep \o SubSeq(s, i + Len(pat), Len(s))

\* the characters encodeURIComponent leaves alone (those the model draws)
Unreserved == {"a", "b", "k", "o", "d", "u", "e", ".", "-", "_"}

\* the escapes of the other characters the model draws
PercentCode ==
    [c \in {" ", "&", "/", "@"} |->
        CASE c = " " -> <<"%", "2", "0">>
          [] c = "&" -> <<"%", "2", "6">>
          [] c = "/" -> <<"%", "2", "F">>
          [] c = "@" -> <<"%", "4", "0">>]

RECURSIVE encodeURIComponent(_)
encodeURIComponent(s) ==
    IF s = <<>> THEN <<>>
    ELSE (IF Head(s) \in Unreserved THEN <<Head(s)>> ELSE PercentCode[Head(s)])
         \o encodeURIComponent(Tail(s))


-----------------------------------------------------------------------------
(* Configuration and the services.                                         *)

\* process.env.R2_PUBLIC_URL, the current public base
R2_PUBLIC_URL == <<"https://cdn.example">>

\* the value of process.env.OLD_R2_PUBLIC_URL when it is set
OLD_R2_PUBLIC_URL == <<"o", "d">>

\* FileStorageService.constructUrl: the public base joined with the key
constructUrl(key) == R2_PUBLIC_URL \o <<"/">> \o key

\* AvatarService.getDefaultAvatar(name = 'User')
getDefaultAvatar(name) ==
    <<"https://ui-avatars.com/api/?name=">>
      \o encodeURIComponent(IF name = NULL THEN <<"U", "s", "e", "r">> ELSE name)
      \o <<"&background=random&size=400">>

\* FileStorageService.getDefaultAvatar: the default-avatar URL of the name
FileStorageService_getDefaultAvatar(name) == getDefaultAvatar(name)

\* getAvatarUrl with the two stored references consulted in the other order
getAvatarUrl_legacyFirst(u, old) ==
    IF Truthy(u.avatar_url) THEN
        IF Truthy(old) /\ includes(u.avatar_url, old)
        THEN constructUrl(replace(u.avatar_url, old \o <<"/">>, <<>>))
        ELSE u.avatar_url
    ELSE IF Truthy(u.avatar_key) THEN constructUrl(u.avatar_key)
    ELSE FileStorageService_getDefaultAvatar(
             IF Truthy(u.name) THEN u.name ELSE u.email)

\* getAvatarUrl rewriting every stored URL, under the old domain or not
getAvatarUrl_alwaysRewrite(u, old) ==
    IF Truthy(u.avatar_key) THEN constructUrl(u.avatar_key)
    ELSE IF Truthy(u.avatar_url) THEN
        constructUrl(replace(u.avatar_url, old \o <<"/">>, <<>>))
    ELSE FileStorageService_getDefaultAvatar(
             IF Truthy(u.name) THEN u.name ELSE u.email)

\* getAvatarUrl naming the default avatar after the email even when a name is set
getAvatarUrl_emailFirst(u, old) ==
    IF Truthy(u.avatar_key) THEN constructUrl(u.avatar_key)
    ELSE IF Truthy(u.avatar_url) THEN
        IF Truthy(old) /\ includes(u.avatar_url, old)
        THEN constructUrl(replace(u.avatar_url, old \o <<"/">>, <<>>))
        ELSE u.avatar_url
    ELSE FileStorageService_getDefaultAvatar(
             IF Truthy(u.email) THEN u.email ELSE u.name)

\* User.prototype.getAvatarUrl, of user record u under OLD_R2_PUBLIC_URL = old
getAvatarUrl(u, old) ==
    IF Truthy(u.avatar_key) THEN constructUrl(u.avatar_key)
    ELSE IF Truthy(u.avatar_url) THEN
        IF Truthy(old) /\ includes(u.avatar_url, old)
        THEN constructUrl(replace(u.avatar_url, old \o <<"/">>, <<>>))
        ELSE u.avatar_url
    ELSE FileStorageService_getDefaultAvatar(
             IF Truthy(u.name) THEN u.name ELSE u.email)

\* 5 * 1024 * 1024, the size limit of validateImage and of multer
MAX_FILE_SIZE == 5 * 1024 * 1024

\* allowedTypes of validateImage and of multer's fileFilter
allowedTypes == {"image/jpeg", "image/png", "image/jpg"}

\* AvatarService.validateImage(file): {valid, errors}
validateImage(file) ==
    LET e1 == IF file.size > MAX_FILE_SIZE
              THEN <<"File size exceeds 5MB limit">> ELSE <<>>
        e2 == IF file.mimetype \notin allowedTypes
              THEN <<"Invalid file type. Only JPEG and PNG are allowed">> ELSE <<>>
    IN  [valid |-> (e1 \o e2) = <<>>, errors |-> e1 \o e2]

\* what model/index.js registers and exports
models == {"User", "Session", "TokenBlacklist"}


-----------------------------------------------------------------------------
(* The state and the values it is drawn from.                              *)

\* ids of the rows of the Users table the model follows
UserIds == {1, 2}

\* milliseconds Date.now() may give
Timestamps == {1, 2}

\* hex strings crypto.randomBytes(16) may give
Hashes == {"h1", "h2"}

\* the filename built without the random suffix
filename_noHash(userId, timestamp, hash) ==
    <<"avatars/", ToString(userId), "/", ToString(timestamp), ".jpg">>

\* AvatarService.uploadAvatar: filename, `avatars/${userId}/${timestamp}-${hash}.jpg`
filename(userId, timestamp, hash) ==
    <<"avatars/", ToString(userId), "/", ToString(timestamp), "-", hash, ".jpg">>

\* a key generated before the behaviour starts (Date.now() = 0)
SeedKey(uid) == filename(uid, 0, "h0")

\* a legacy avatar_url under the old domain, and the object key it names
LegacyKey(uid) == <<"k", ToString(uid)>>
LegacyUrl(uid) == OLD_R2_PUBLIC_URL \o <<"/">> \o LegacyKey(uid)

\* file_key of the i-th File row uploaded by uid
FileKey(uid, i) == <<"files/", ToString(uid), "/", ToString(i)>>

Name(uid) == IF uid = 1 THEN <<"a", " ", "b">> ELSE NULL
Email(uid) == IF uid = 1 THEN <<"u", "@", "e">> ELSE <<"e", "@", "u">>

\* declared content types and sizes of uploads
MimeTypes == {"image/jpeg", "image/gif"}
Sizes == {MAX_FILE_SIZE, MAX_FILE_SIZE + 1}

\* req.file after multer.memoryStorage(): mimetype, size, buffer (decodable by sharp or not)
Files == [present : {TRUE}, mimetype : MimeTypes, size : Sizes, decodable : BOOLEAN]

\* the request carries no file field
NoFile == [present |-> FALSE]

\* account_status and is_profile_public of a row, and their defaultValue
AccountStatuses == {"active", "deactivated", "pending_deletion", "deleted"}
DefaultAccount == [account_status |-> "active", is_profile_public |-> FALSE]

RECURSIVE SetToSeq(_)
SetToSeq(S) ==
    IF S = {} THEN <<>>
    ELSE LET x == CHOOSE y \in S : TRUE IN <<x>> \o SetToSeq(S \ {x})

Range(q) == {q[i] : i \in 1..Len(q)}

\* File rows with uploaded_by = uid
OwnedFiles(uid) == {f \in files : f.uploaded_by = uid}

\* The Users rows before any request: avatar_key absent or naming a stored
\* object, avatar_url absent or a URL under the old domain, and the File rows
\* each user owns; every object the rows name is in the object store. User 1
\* takes every combination; user 2 has an avatar key and one File row.
InitRows ==
    \E hasKey \in {h \in [UserIds -> BOOLEAN] : h[2]},
       hasUrl \in {h \in [UserIds -> BOOLEAN] : ~h[2]},
       n \in {m \in [UserIds -> 0..MaxFiles] : m[2] = 1} :
        /\ users = [uid \in UserIds |->
                      [avatar_key |-> IF hasKey[uid] THEN SeedKey(uid) ELSE NULL,
                       avatar_url |-> IF hasUrl[uid] THEN LegacyUrl(uid) ELSE NULL,
                       name |-> Name(uid), email |-> Email(uid)]]
        /\ files = UNION {{[uploaded_by |-> uid, file_key |-> FileKey(uid, i)] :
                              i \in 1..n[uid]} : uid \in UserIds}
        /\ store = {SeedKey(uid) : uid \in {x \in UserIds : hasKey[x]}}
                     \cup {LegacyKey(uid) : uid \in {x \in UserIds : hasUrl[x]}}
                     \cup UNION {{FileKey(uid, i) : i \in 1..n[uid]} : uid \in UserIds}
        /\ clock = 1
        /\ uploads = 0
        /\ generated = <<>>
        /\ env = [OLD_R2_PUBLIC_URL |-> OLD_R2_PUBLIC_URL]
        /\ last = [op |-> "none"]

\* every account with the column defaults of is_profile_public and account_status
Init == InitRows /\ accounts = [uid \in UserIds |-> DefaultAccount]

-----------------------------------------------------------------------------
(* Read path.                                                              *)

\* user.getAvatarUrl() on the row of uid
ResolveUrl(uid) ==
    /\ uid \in DOMAIN users
    /\ last' = [op |-> "getAvatarUrl", uid |-> uid,
                result |-> getAvatarUrl(users[uid], env.OLD_R2_PUBLIC_URL)]
    /\ UNCHANGED <<users, accounts, files, store, clock, uploads, generated, env>>

-----------------------------------------------------------------------------
(* Account deletion: user.destroy() and the beforeDestroy hook.            *)

\* the keys beforeDestroy asks the object store to delete, in order
avatarDeleteCalls(u) == IF Truthy(u.avatar_key) THEN <<u.avatar_key>> ELSE <<>>

\* const { File } = require('./index'); File.findAll(...): index.js exports no
\* File, so File is undefined and File.findAll throws a TypeError, which the
\* hook's outer catch logs; were File registered, one call per owned row
fileDeleteCalls(uid) ==
    IF "File" \in models
    THEN SetToSeq({f.file_key : f \in OwnedFiles(uid)})
    ELSE <<>>

beforeDestroyCalls(uid) == avatarDeleteCalls(users[uid]) \o fileDeleteCalls(uid)

\* FileStorageService.deleteFile on each of `keys`: the object store after the
\* calls, those in `failed` having rejected
deleteFile(objects, keys, failed) == objects \ (keys \ failed)

\* whether the hook rejects: the avatar deletion is awaited inside try/catch,
\* each file deletion carries its own .catch, and the file block sits in an
\* outer try/catch, so no rejection leaves the hook
beforeDestroyThrows(uid, failed) == FALSE

\* user.destroy() for the row of uid; `failed` are the delete calls that reject
DestroyUser(uid, failed) ==
    /\ uid \in DOMAIN users
    /\ failed \subseteq Range(beforeDestroyCalls(uid))
    /\ store' = deleteFile(store, Range(beforeDestroyCalls(uid)), failed)
    /\ users' = IF beforeDestroyThrows(uid, failed) THEN users
                ELSE [x \in DOMAIN users \ {uid} |-> users[x]]
    /\ last' = [op |-> "destroy", uid |-> uid,
                avatar_key |-> users[uid].avatar_key,
                avatar_url |-> users[uid].avatar_url,
                owned |-> {f.file_key : f \in OwnedFiles(uid)},
                deleteCalls |-> beforeDestroyCalls(uid),
                failed |-> failed,
                error |-> IF beforeDestroyThrows(uid, failed)
                          THEN "cleanup failed" ELSE "none"]
    /\ UNCHANGED <<accounts, files, clock, uploads, generated, env>>

-----------------------------------------------------------------------------
(* DELETE /avatar: ProfileController.deleteAvatar.                         *)

\* the row after deleteAvatar's assignment and save
deleteAvatarRow(u) == [u EXCEPT !.avatar_url = NULL]

DeleteAvatarRequest(uid) ==
    /\ IF uid \in DOMAIN users
       THEN /\ users' = [users EXCEPT ![uid] = deleteAvatarRow(users[uid])]
            /\ last' = [op |-> "deleteAvatar", uid |-> uid, status |-> 200,
                        before |-> users[uid],
                        avatar_url |-> getAvatarUrl(deleteAvatarRow(users[uid]),
                                                    env.OLD_R2_PUBLIC_URL),
                        deleteCalls |-> <<>>]
       ELSE \* findByPk gives null; user.avatar_url throws; next(error)
            /\ users' = users
            /\ last' = [op |-> "deleteAvatar", uid |-> uid, status |-> 500]
    /\ UNCHANGED <<accounts, files, store, clock, uploads, generated, env>>

-----------------------------------------------------------------------------
(* POST /avatar: multer's upload.single('avatar'), then                    *)
(* ProfileController.uploadAvatar.                                         *)

\* multer: fileFilter on the declared type, then limits.fileSize
upload(f) ==
    IF ~f.present THEN "ok"
    ELSE IF f.mimetype \notin allowedTypes THEN "Invalid file type"
    ELSE IF f.size > MAX_FILE_SIZE THEN "LIMIT_FILE_SIZE"
    ELSE "ok"

\* req.file.path: memoryStorage sets buffer and no path
reqFilePath(f) == NULL

\* the row after uploadAvatar's assignment and save
uploadAvatarRow(u, f) == [u EXCEPT !.avatar_url = reqFilePath(f)]

\* the object-store put calls of the upload handler
uploadAvatarPutCalls(uid, f) == <<>>

UploadAvatarRequest(uid, f) ==
    /\ IF upload(f) # "ok"
       THEN /\ users' = users
            /\ last' = [op |-> "uploadAvatarRequest", uid |-> uid, status |-> 500,
                        file |-> f, error |-> upload(f), putCalls |-> <<>>]
       ELSE IF ~f.present
       THEN /\ users' = users
            /\ last' = [op |-> "uploadAvatarRequest", uid |-> uid, status |-> 400,
                        file |-> f, error |-> "No file uploaded", putCalls |-> <<>>]
       ELSE IF uid \notin DOMAIN users
       THEN /\ users' = users
            /\ last' = [op |-> "uploadAvatarRequest", uid |-> uid, status |-> 500,
                        file |-> f, error |-> "TypeError", putCalls |-> <<>>]
       ELSE /\ users' = [users EXCEPT ![uid] = uploadAvatarRow(users[uid], f)]
            /\ last' = [op |-> "uploadAvatarRequest", uid |-> uid, status |-> 200,
                        file |-> f, error |-> "none",
                        before |-> users[uid],
                        avatar_url |-> reqFilePath(f),
                        putCalls |-> uploadAvatarPutCalls(uid, f)]
    /\ UNCHANGED <<accounts, files, store, clock, uploads, generated, env>>

-----------------------------------------------------------------------------
(* AvatarService.uploadAvatar(fileBuffer, userId).                         *)

\* sharp(fileBuffer).resize(...).jpeg(...).toBuffer() resolves
sharpOk(f) == f.decodable

\* the returned value with an object-store path in place of the public URL
publicUrl_bucketPath(fname) == <<"avatars-bucket">> \o <<"/">> \o fname

\* `${this.publicUrl}/${filename}`, the value uploadAvatar returns
publicUrl(fname) == R2_PUBLIC_URL \o <<"/">> \o fname

\* f.buffer is passed as fileBuffer; Date.now() gives t, randomBytes gives hash,
\* and the PutObjectCommand resolves iff putOk; `generated` keeps every filename
\* built so far, with the user, the millisecond and the random suffix it came from
uploadAvatar(f, userId, t, hash, putOk) ==
    /\ uploads < MaxUploads
    /\ uploads' = uploads + 1
    /\ t \in Timestamps /\ t >= clock
    /\ IF ~sharpOk(f)
       THEN /\ clock' = clock
            /\ store' = store
            /\ generated' = generated
            /\ last' = [op |-> "uploadAvatar", uid |-> userId, file |-> f,
                        usersBefore |-> users, transformed |-> TRUE,
                        putCalls |-> <<>>, result |-> NULL,
                        error |-> "Failed to upload avatar"]
       ELSE /\ clock' = t
            /\ generated' = Append(generated,
                                   [uid |-> userId, timestamp |-> t, hash |-> hash,
                                    key |-> filename(userId, t, hash)])
            /\ store' = IF putOk THEN store \cup {filename(userId, t, hash)} ELSE store
            /\ last' = [op |-> "uploadAvatar", uid |-> userId, file |-> f,
                        usersBefore |-> users, transformed |-> TRUE,
                        putCalls |-> <<filename(userId, t, hash)>>,
                        result |-> IF putOk THEN publicUrl(filename(userId, t, hash))
                                   ELSE NULL,
                        error |-> IF putOk THEN "none" ELSE "Failed to upload avatar"]
    /\ UNCHANGED <<users, accounts, files, env>>

\* AvatarService.validateImage(file) called on its own
ValidateImage(f) ==
    /\ last' = [op |-> "validateImage", file |-> f, result |-> validateImage(f)]
    /\ UNCHANGED <<users, accounts, files, store, clock, uploads, generated, env>>

-----------------------------------------------------------------------------
(* The specifications.                                                     *)

\* calls of the avatar service
NextPipeline ==
    \/ \E f \in Files, userId \in UserIds, t \in Timestamps, hash \in Hashes,
          putOk \in BOOLEAN : uploadAvatar(f, userId, t, hash, putOk)
    \/ \E f \in Files : ValidateImage(f)

\* req.user on GET /:id/profile: the route is mounted before authenticate, so
\* req.user is whatever an earlier middleware of the application left there
NoUser == [present |-> FALSE]
ReqUsers == {NoUser} \cup {[present |-> TRUE, id |-> uid] : uid \in UserIds}

\* req.params.id: the id of a row, and an id no row has
Params == {ToString(uid) : uid \in UserIds} \cup {"9"}

\* the primary key a path parameter names
ToNumber(param) == CHOOSE n \in UserIds \cup {9} : ToString(n) = param

\* targetUserId == requesterId, the loose equality of a string and req.user?.id
looseEquals(param, reqUser) == reqUser.present /\ ToNumber(param) = reqUser.id

\* the fields of the three response bodies of getProfile
ErrorBody == {"message"}
FullBody == {"id", "email", "name", "role", "avatar_url", "is_profile_public",
             "account_status", "created_at", "profile", "guardians", "privacy_settings"}
PublicBody == {"id", "display_name", "bio", "sex", "avatar_url", "is_profile_public",
               "achievements"}

\* ProfileController.getProfile: the status and the body it answers with. An
\* include of a model that model/index.js does not export has model undefined,
\* and findByPk throws; so does UserGuardian.findUserGuardians on undefined.
\* A throw goes to next(error), the 500 of the error handler.
getProfile(param, reqUser) ==
    LET targetUserId == ToNumber(param) IN
    IF ~({"UserProfile", "UserPrivacySettings"} \subseteq models)
    THEN [status |-> 500, body |-> ErrorBody]
    ELSE IF targetUserId \notin DOMAIN users
    THEN [status |-> 404, body |-> ErrorBody]
    ELSE IF accounts[targetUserId].account_status # "active"
    THEN [status |-> 403, body |-> ErrorBody]
    ELSE IF looseEquals(param, reqUser)
    THEN IF "UserGuardian" \in models
         THEN [status |-> 200, body |-> FullBody]
         ELSE [status |-> 500, body |-> ErrorBody]
    ELSE IF ~accounts[targetUserId].is_profile_public
    THEN [status |-> 403, body |-> ErrorBody]
    ELSE [status |-> 200, body |-> PublicBody]

\* GET /:id/profile
GetProfile(param, reqUser) ==
    /\ last' = [op |-> "getProfile", target |-> ToNumber(param), reqUser |-> reqUser,
                status |-> getProfile(param, reqUser).status,
                body |-> getProfile(param, reqUser).body]
    /\ UNCHANGED <<users, accounts, files, store, clock, uploads, generated, env>>

\* requests of the profile routes, account deletion and reads of the avatar URL
NextProfile ==
    \/ \E uid \in UserIds : ResolveUrl(uid)
    \/ \E uid \in DOMAIN users :
          \E failed \in SUBSET Range(beforeDestroyCalls(uid)) : DestroyUser(uid, failed)
    \/ \E uid \in UserIds : DeleteAvatarRequest(uid)
    \/ \E uid \in UserIds, f \in {NoFile} \cup {g \in Files : g.decodable} :
          UploadAvatarRequest(uid, f)

\* uploads within the limits of validateImage
WellFormedFiles == {g \in Files : validateImage(g).valid}

\* the upload pipeline run on well-formed uploads
NextKeys ==
    \E f \in WellFormedFiles, userId \in UserIds, t \in Timestamps, hash \in Hashes,
       putOk \in BOOLEAN : uploadAvatar(f, userId, t, hash, putOk)

\* the profile routes and account deletion, beside runs of the upload pipeline
Next == NextProfile \/ NextKeys

Spec == Init /\ [][Next]_vars

\* the rows of Init in which user 1 owns no File row
InitPipeline == Init /\ OwnedFiles(1) = {}

\* the avatar service called on its own, on any upload
SpecPipeline == InitPipeline /\ [][NextPipeline]_vars

\* the upload pipeline run repeatedly
SpecKeys == InitPipeline /\ [][NextKeys]_vars

\* the rows of InitPipeline with every account_status and is_profile_public
InitView ==
    /\ InitRows
    /\ OwnedFiles(1) = {}
    /\ accounts \in [UserIds -> [account_status : AccountStatuses,
                                 is_profile_public : BOOLEAN]]

\* views of a profile
NextView == \E param \in Params, reqUser \in ReqUsers : GetProfile(param, reqUser)

SpecView == InitView /\ [][NextView]_vars

-----------------------------------------------------------------------------
(* URL resolution on its own: the row of user 1 drawn from bounded sets.   *)

\* characters of a stored avatar_url: those of the old domain, the separator
\* and one more
UrlChars == {"o", "d", "/", "k"}
Urls == StringsUpTo(UrlChars, MaxLen) \ {<<>>}

\* characters of a name: plain, and two that encodeURIComponent escapes
NameChars == {"a", " ", "&"}
Names == {NULL} \cup StringsUpTo(NameChars, MaxNameLen)

InitUrl ==
    /\ \E key \in {NULL, SeedKey(1), <<"k">>}, url \in {NULL} \cup Urls,
          name \in Names \cup {Name(1)} :
          /\ \/ name = Name(1)
             \/ key = NULL /\ url = NULL
          /\ users = [uid \in UserIds |->
                        [avatar_key |-> IF uid = 1 THEN key ELSE NULL,
                         avatar_url |-> IF uid = 1 THEN url ELSE NULL,
                         name |-> IF uid = 1 THEN name ELSE Name(uid),
                         email |-> Email(uid)]]
    /\ env \in {[OLD_R2_PUBLIC_URL |-> NULL], [OLD_R2_PUBLIC_URL |-> OLD_R2_PUBLIC_URL]}
    /\ files = {}
    /\ store = {}
    /\ clock = 1
    /\ uploads = 0
    /\ generated = <<>>
    /\ accounts = [uid \in UserIds |-> DefaultAccount]
    /\ last = [op |-> "none"]

NextUrl == \E uid \in UserIds : ResolveUrl(uid)

SpecUrl == InitUrl /\ [][NextUrl]_vars

\* the row and the result of the last getAvatarUrl call
Resolved == last.op = "getAvatarUrl"
Row == users[last.uid]

-----------------------------------------------------------------------------
(* URL resolution: the priority chain (checked under SpecUrl).             *)

\* C3: whenever getAvatarUrl has run on a row whose avatar_key is not null,
\* its result is the public base, "/", and that key, whatever avatar_url
\* holds (null, a URL under the old domain, any other URL).
C3_KeyHasPriority ==
    (Resolved /\ Row.avatar_key # NULL)
        => last.result = R2_PUBLIC_URL \o <<"/">> \o Row.avatar_key

\* a row with a key and a URL under the old domain has been resolved
C3_Witness ==
    /\ Resolved
    /\ Row.avatar_key # NULL
    /\ Row.avatar_url = OLD_R2_PUBLIC_URL \o <<"/", "k">>
    /\ env.OLD_R2_PUBLIC_URL # NULL

\* the stored URL with the first occurrence of the old domain, and one "/"
\* right after it, cut out: what follows the domain in the stored URL
RECURSIVE AfterDomain(_, _)
AfterDomain(url, dom) ==
    IF Len(url) < Len(dom) THEN <<>>
    ELSE IF SubSeq(url, 1, Len(dom)) = dom
         THEN IF Len(url) > Len(dom) /\ url[Len(dom) + 1] = "/"
              THEN SubSeq(url, Len(dom) + 2, Len(url))
              ELSE SubSeq(url, Len(dom) + 1, Len(url))
         ELSE AfterDomain(Tail(url), dom)

\* C4: whenever getAvatarUrl has run on a row with a null avatar_key and an
\* avatar_url that contains the configured old domain, its result is the
\* public base, "/", and the part of the stored URL that follows the old
\* domain, and nothing else of the stored URL.
C4_LegacyRewrite ==
    (/\ Resolved
     /\ Row.avatar_key = NULL
     /\ Row.avatar_url # NULL
     /\ env.OLD_R2_PUBLIC_URL # NULL
     /\ includes(Row.avatar_url, env.OLD_R2_PUBLIC_URL))
        => last.result = R2_PUBLIC_URL \o <<"/">>
                           \o AfterDomain(Row.avatar_url, env.OLD_R2_PUBLIC_URL)

\* C5: whenever getAvatarUrl has run on a row with a null avatar_key and an
\* avatar_url that does not contain the configured old domain, or with no
\* old domain configured, its result is the stored avatar_url itself.
C5_LegacyPassThrough ==
    (/\ Resolved
     /\ Row.avatar_key = NULL
     /\ Row.avatar_url # NULL
     /\ \/ env.OLD_R2_PUBLIC_URL = NULL
        \/ ~includes(Row.avatar_url, env.OLD_R2_PUBLIC_URL))
        => last.result = Row.avatar_url

\* a URL under the old domain has been resolved with no old domain configured
C5_Witness ==
    /\ Resolved
    /\ Row.avatar_key = NULL
    /\ Row.avatar_url = OLD_R2_PUBLIC_URL \o <<"/", "k">>
    /\ env.OLD_R2_PUBLIC_URL = NULL
    /\ last.result = Row.avatar_url

\* the string a percent-encoded string stands for
RECURSIVE decodeURIComponent(_)
decodeURIComponent(s) ==
    IF s = <<>> THEN <<>>
    ELSE IF Head(s) = "%"
         THEN <<CHOOSE c \in DOMAIN PercentCode : PercentCode[c] = SubSeq(s, 1, 3)>>
              \o decodeURIComponent(SubSeq(s, 4, Len(s)))
         ELSE <<Head(s)>> \o decodeURIComponent(Tail(s))

\* C6: whenever getAvatarUrl has run on a row with null avatar_key and null
\* avatar_url, its result is the default-avatar URL whose name parameter holds
\* no character outside the unreserved ones and "%", and decodes to the name
\* when the row has one and to the email otherwise.
C6_DefaultTier ==
    (Resolved /\ Row.avatar_key = NULL /\ Row.avatar_url = NULL)
        => LET r == last.result
               param == SubSeq(r, 2, Len(r) - 1)
           IN  /\ Len(r) >= 3
               /\ r[1] = "https://ui-avatars.com/api/?name="
               /\ r[Len(r)] = "&background=random&size=400"
               /\ \A i \in 1..Len(param) : param[i] \in Unreserved \cup {"%", "2", "0", "4", "6", "F"}
               /\ decodeURIComponent(param) =
                     (IF Row.name # NULL /\ Row.name # <<>> THEN Row.name ELSE Row.email)

\* a row with no avatar data and a name that needs escaping has been resolved
C6_Witness ==
    /\ Resolved
    /\ Row.avatar_key = NULL
    /\ Row.avatar_url = NULL
    /\ Row.name = <<"a", "&">>

-----------------------------------------------------------------------------
(* Account deletion and the avatar handlers (checked under Spec), the       *)
(* upload pipeline (C7 to C9, checked under SpecPipeline).                 *)

\* C1: after user.destroy() of a row with a non-null avatar_key and N owned
\* File rows, the hook has issued exactly N + 1 delete calls, one for the
\* avatar key and one per owned file key, the row is gone and no error reached
\* the caller, whichever of the calls failed.
C1_DestroyCascade ==
    (last.op = "destroy" /\ last.avatar_key # NULL)
        => /\ Len(last.deleteCalls) = Cardinality(last.owned) + 1
           /\ Range(last.deleteCalls) = {last.avatar_key} \cup last.owned
           /\ last.uid \notin DOMAIN users
           /\ last.error = "none"

\* C2: after deleteAvatar has answered for a user, the row's avatar_key is
\* null and the avatar_url of the response is the default-avatar URL.
C2_RemoveAvatarClearsKey ==
    (last.op = "deleteAvatar" /\ last.status = 200)
        => /\ users[last.uid].avatar_key = NULL
           /\ last.avatar_url =
                 getDefaultAvatar(IF Truthy(last.before.name)
                                  THEN last.before.name ELSE last.before.email)

\* C7: after a run of the upload pipeline on a file larger than 5 MiB, the run
\* has failed (FileTooLarge, under whatever name the code gives the failure)
\* and has made no put call.
C7_SizeGate ==
    (last.op = "uploadAvatar" /\ last.file.size > MAX_FILE_SIZE)
        => /\ last.error # "none"
           /\ last.putCalls = <<>>

\* C8: after a run of the upload pipeline on a file whose declared type is not
\* allowed (image/gif), the run has failed (UnsupportedMediaType, under
\* whatever name the code gives the failure) and neither the transform nor the
\* put was invoked.
C8_TypeGate ==
    (last.op = "uploadAvatar" /\ last.file.mimetype \notin allowedTypes)
        => /\ last.error # "none"
           /\ ~last.transformed
           /\ last.putCalls = <<>>

\* C9 as stated: after a successful run of the upload pipeline, the value
\* returned is the key the object was put under, and no Users row changed.
C9_ReturnsKey ==
    (last.op = "uploadAvatar" /\ last.error = "none")
        => /\ Len(last.putCalls) = 1
           /\ last.result = last.putCalls[1]
           /\ users = last.usersBefore

\* C9 amended: after a successful run of the upload pipeline, the value
\* returned is the public base, "/", and the key of the one put call, the
\* object is in the store under that key, and no Users row changed.
C9_ReturnsPublicUrl ==
    (last.op = "uploadAvatar" /\ last.error = "none")
        => /\ Len(last.putCalls) = 1
           /\ last.result = R2_PUBLIC_URL \o <<"/">> \o last.putCalls[1]
           /\ last.putCalls[1] \in store
           /\ users = last.usersBefore

\* a run of the upload pipeline has succeeded
C9_Witness ==
    /\ last.op = "uploadAvatar"
    /\ last.error = "none"
    /\ last.result # NULL
    /\ last.putCalls # <<>>

\* C10: after an upload request has been answered with success, the row's
\* avatar_key is the key of an object put into the store during the request.
C10_UploadPersistsKey ==
    (last.op = "uploadAvatarRequest" /\ last.status = 200)
        => /\ users[last.uid].avatar_key \in Range(last.putCalls)
           /\ users[last.uid].avatar_key \in store

-----------------------------------------------------------------------------
(* Cleanup on account deletion and the legacy column (checked under Spec). *)

\* keys of the objects the upload pipeline generates for uid
IsAvatarKeyOf(key, uid) ==
    Len(key) >= 3 /\ SubSeq(key, 1, 3) = <<"avatars/", ToString(uid), "/">>

\* C11: after user.destroy() of a row, all of whose delete calls succeeded, the
\* store holds no object named by a File row the user owned, none under the
\* row's avatar_key, none named by the row's avatar_url under the old domain,
\* and none that an earlier upload generated for the user.
C11_EventualCleanup ==
    (last.op = "destroy" /\ last.failed = {})
        => /\ last.owned \cap store = {}
           /\ last.avatar_key \notin store
           /\ (last.avatar_url # NULL =>
                 AfterDomain(last.avatar_url, OLD_R2_PUBLIC_URL) \notin store)
           /\ \A key \in store : ~IsAvatarKeyOf(key, last.uid)

\* C13: no step changes the avatar_url of a row that stays in the table.
C13_LegacyUrlReadOnly ==
    [][\A uid \in DOMAIN users \cap DOMAIN users' :
          users'[uid].avatar_url = users[uid].avatar_url]_vars

\* C14: after user.destroy() of a row, a delete call has been issued for every
\* file key the user owned, whichever of the calls failed, and every call that
\* failed is one of those issued.
C14_PerFileIsolation ==
    last.op = "destroy"
        => /\ last.owned \subseteq Range(last.deleteCalls)
           /\ last.failed \subseteq Range(last.deleteCalls)

-----------------------------------------------------------------------------
(* Generated keys (checked under SpecKeys).                                *)

-----------------------------------------------------------------------------
(* The profile view (checked under SpecView).                              *)

\* the target of the last view exists, is active, and is the requester or public
Visible ==
    /\ last.target \in DOMAIN users
    /\ accounts[last.target].account_status = "active"
    /\ \/ (last.reqUser.present /\ last.reqUser.id = last.target)
       \/ accounts[last.target].is_profile_public

\* C15: a view answers with profile fields only when the target exists, is
\* active, and is the requester or has a public profile; every other view is
\* answered 404 or 403 with no profile field; and the own-profile fields
\* (email, guardians, privacy settings) go to the target user only.
C15_VisibilityGate ==
    last.op = "getProfile"
        => /\ (last.body # ErrorBody => Visible)
           /\ (~Visible => last.status \in {403, 404} /\ last.body = ErrorBody)
           /\ (last.body \cap {"email", "guardians", "privacy_settings"} # {}
                  => last.reqUser.present /\ last.reqUser.id = last.target)

=============================================================================
